---------------------------- MODULE Spec2Model ----------------------------
(***************************************************************************)
(* Turn-taking pipeline of the whisplay chatbot: ChatFlow (controller),    *)
(* StreamResponser (sentencer + playback sequencer), the audio player,     *)
(* StreamingASR / VolcengineAsrClient (recognizer) and SimpleVAD.          *)
(*                                                                         *)
(* Text is a sequence of one-character strings.  The program is            *)
(* single-threaded: one action is one macrotask (an I/O event, a timer)    *)
(* together with the promise continuations (microtasks) it releases.       *)
(***************************************************************************)
EXTENDS Integers, Sequences, FiniteSets, TLC

VARIABLES
    chat,     \* ChatFlow fields and the installed button handlers
    resp,     \* StreamResponser fields
    jobs,     \* every synthesis promise created by ttsFunc, in creation order
    loops,    \* the suspended playNext chains
    player,   \* device/audio player object and playAudioData bookkeeping
    pe,       \* promises handed out by getPlayEndPromise, in creation order
    llm,      \* chatWithLLMStream invocations, one per answer entry
    asr,      \* StreamingASR fields and the promises returned by end()
    rec,      \* recordAudioManually promises and the recognition races
    vad,      \* SimpleVAD fields and the chunk clock
    cli,      \* VolcengineAsrClient fields and the frames it transmitted
    seg,      \* segmentation run: the text, its fragments, what was emitted
    frm       \* frame round trip: the structured value, the frame, the result

vars == <<chat, resp, jobs, loops, player, pe, llm, asr, rec, vad, cli, seg, frm>>

-----------------------------------------------------------------------------
(* Text helpers                                                            *)

Terminators == {".", "!", "?", ","}
Digits == {"3", "1"}
Whitespace == {" ", "\n"}
Markers == {"*", "#", "~"}
Emoji == {"^"}     \* "^" stands for U+1F600, an emoji of both regex classes

\* String.prototype.trim
RECURSIVE TrimLeft(_)
TrimLeft(s) ==
    IF s = <<>> THEN s
    ELSE IF Head(s) \in Whitespace THEN TrimLeft(Tail(s)) ELSE s

RECURSIVE TrimRight(_)
TrimRight(s) ==
    IF s = <<>> THEN s
    ELSE IF s[Len(s)] \in Whitespace THEN TrimRight(SubSeq(s, 1, Len(s) - 1)) ELSE s

Trim(s) == TrimRight(TrimLeft(s))

\* text.replace(/\n/g, " ")
ReplaceNewlines(s) == [i \in 1..Len(s) |-> IF s[i] = "\n" THEN " " ELSE s[i]]

\* purifyTextForTTS: drop emphasis markers and emoji, then trim
PurifyTextForTTS(s) == Trim(SelectSeq(s, LAMBDA c : c \notin Markers \cup Emoji))

MergeLimit == 60

\* The regex  .*?([terminator])(?=\s|$)  run from lastIndex `from` (0-based):
\* the lazy prefix stops at the first terminator that is followed by
\* whitespace or by the end of the input.  0 when there is no match,
\* otherwise regex.lastIndex after the match.
MatchEnd(text, from) ==
    LET ends == {p \in (from + 1)..Len(text) :
                    /\ text[p] \in Terminators
                    /\ (p = Len(text) \/ text[p + 1] \in Whitespace)}
    IN IF ends = {} THEN 0 ELSE CHOOSE p \in ends : \A q \in ends : p <= q

\* /[0-9\.。！？!?，,]/.test(sentence): true when the sentence CONTAINS a digit
\* or a punctuation mark
AcceptTest(sentence) ==
    \E i \in 1..Len(sentence) : sentence[i] \in Digits \cup Terminators

\* the while loop of splitSentences: the trimmed matches and the final lastIndex
RECURSIVE RawSplit(_, _, _)
RawSplit(text, from, acc) ==
    LET e == MatchEnd(text, from)
    IN IF e = 0 THEN [sentences |-> acc, lastIndex |-> from]
       ELSE LET sentence == Trim(SubSeq(text, from + 1, e))
            IN IF AcceptTest(sentence)
               THEN RawSplit(text, e, Append(acc, sentence))
               ELSE [sentences |-> acc, lastIndex |-> from]

\* "merge short sentences": the forEach with its buffer
RECURSIVE MergeShort(_, _, _)
MergeShort(sentences, buffer, out) ==
    IF sentences = <<>>
    THEN IF buffer # <<>> THEN Append(out, buffer) ELSE out
    ELSE LET item == Head(sentences) \o <<" ">>
         IN IF Len(buffer \o item) <= MergeLimit
            THEN MergeShort(Tail(sentences), buffer \o item, out)
            ELSE MergeShort(Tail(sentences), item,
                            IF buffer # <<>> THEN Append(out, buffer) ELSE out)

splitSentences(text) ==
    LET raw == RawSplit(text, 0, <<>>)
    IN [sentences |-> MergeShort(raw.sentences, <<>>, <<>>),
        remaining |-> Trim(SubSeq(text, raw.lastIndex + 1, Len(text)))]


-----------------------------------------------------------------------------
(* Bounds                                                                  *)

MaxTurns == 2      \* answerId never exceeds this
MaxFrags == 2      \* callbacks one chatWithLLMStream invocation delivers

\* the fragments the language model streams
LLMFrags == {<<"a", ".">>, <<"a">>}

-----------------------------------------------------------------------------
(* The world: every object of the running program.  Handlers are functions *)
(* from world to world, composed the way the code calls them.              *)

World ==
    [chat |-> chat, resp |-> resp, jobs |-> jobs, loops |-> loops,
     player |-> player, pe |-> pe, llm |-> llm, asr |-> asr, rec |-> rec,
     cli |-> cli]

\* ---- device/audio: playAudioData, stopPlaying ----------------------------

\* playAudioData(params): the device starts playing; the returned promise is
\* settled later by the duration timer or by the player process ending
playAudioData(w, j) ==
    [w EXCEPT !.player.isPlaying = TRUE,
              !.player.played = Append(@, j),
              !.jobs[j].late = @ \/ w.jobs[j].cut]

\* stopPlaying(): the player process is killed, which halts what it plays
stopPlaying(w) ==
    IF w.player.isPlaying
    THEN [w EXCEPT !.player.isPlaying = FALSE, !.player.halts = @ + 1,
                   !.loops = [k \in DOMAIN @ |->
                                 IF @[k].pc = "play" THEN [@[k] EXCEPT !.halted = TRUE]
                                 ELSE @[k]]]
    ELSE w

\* ---- StreamResponser -----------------------------------------------------

\* this.playEndResolve(): resolving a pending promise queues its then-callback
\* (by and byStale record the caller: stop(), or a playNext chain and whether
\* that chain was started before the last stop())
playEndResolve(w, by, byStale) ==
    LET p == w.resp.playEndResolve
    IN IF p = 0 \/ w.pe[p].st # "pending" THEN w
       ELSE [w EXCEPT !.pe[p].st = "fired", !.pe[p].by = by,
                      !.pe[p].byStale = byStale]

NewLoop(idx, pc, j) ==
    [idx |-> idx, pc |-> pc, job |-> j, stale |-> FALSE, halted |-> FALSE]

RemoveAt(q, k) == SubSeq(q, 1, k - 1) \o SubSeq(q, k + 1, Len(q))

\* playNext of the chain l (its cursor is l.idx), run up to its next await:
\* the chain suspends on a synthesis promise, on playAudioData or on the
\* one-second poll, or it ends and resolves the play-end promise
playNext(w, l) ==
    IF l.idx < Len(w.resp.speakArray)
    THEN LET j  == w.resp.speakArray[l.idx + 1]
             w1 == [w EXCEPT !.resp.isPlaying = TRUE]
         IN IF w.jobs[j].st = "resolved"
            THEN [playAudioData(w1, j) EXCEPT
                     !.loops = Append(@, [l EXCEPT !.pc = "play", !.job = j])]
            ELSE [w1 EXCEPT !.loops = Append(@, [l EXCEPT !.pc = "job", !.job = j])]
    ELSE IF w.resp.partialContent # <<>>
    THEN [w EXCEPT !.loops = Append(@, [l EXCEPT !.pc = "poll", !.job = 0])]
    ELSE playEndResolve([w EXCEPT !.resp.isPlaying = FALSE,
                                  !.resp.speakArray = <<>>], "loop", l.stale)

playAudioInOrder(w) ==
    IF w.resp.isPlaying THEN w ELSE playNext(w, NewLoop(0, "new", 0))

NewJob(w, text, trig) ==
    [turn |-> w.chat.answerId, text |-> text, st |-> "pending", trig |-> trig,
     cut |-> FALSE, late |-> FALSE]

\* the jobs put in front of the queue instead of behind it
RECURSIVE PushJobsFront(_, _, _, _)
PushJobsFront(w, texts, index, length) ==
    IF texts = <<>> THEN w
    ELSE LET trig == IF length = 0 /\ index = 0 THEN "first" ELSE "none"
             w1 == [w EXCEPT !.jobs = Append(@, NewJob(w, Head(texts), trig)),
                             !.resp.speakArray = <<Len(w.jobs) + 1>> \o @]
         IN PushJobsFront(w1, Tail(texts), index + 1, length)

\* this.speakArray.push(...texts.map((item, index) => this.ttsFunc(item).finally(..)))
RECURSIVE PushJobs(_, _, _, _)
PushJobs(w, texts, index, length) ==
    IF texts = <<>> THEN w
    ELSE LET trig == IF length = 0 /\ index = 0 THEN "first" ELSE "none"
             w1 == [w EXCEPT !.jobs = Append(@, NewJob(w, Head(texts), trig)),
                             !.resp.speakArray = Append(@, Len(w.jobs) + 1)]
         IN PushJobs(w1, Tail(texts), index + 1, length)

RECURSIVE MapPurify(_)
MapPurify(ss) ==
    IF ss = <<>> THEN <<>> ELSE <<PurifyTextForTTS(Head(ss))>> \o MapPurify(Tail(ss))

partial(w, text) ==
    LET content == ReplaceNewlines(w.resp.partialContent \o text)
        sp == splitSentences(content)
        filtered == SelectSeq(MapPurify(sp.sentences), LAMBDA t : t # <<>>)
        w1 == IF sp.sentences # <<>>
              THEN PushJobs(w, filtered, 0, Len(w.resp.speakArray))
              ELSE w
    IN [w1 EXCEPT !.resp.partialContent = sp.remaining]

endPartial(w) ==
    IF w.resp.partialContent # <<>>
    THEN LET content == SelectSeq(w.resp.partialContent, LAMBDA c : c \notin Emoji)
             w1 == IF Trim(content) # <<>>
                   THEN [w EXCEPT
                           !.jobs = Append(@, NewJob(w, PurifyTextForTTS(content), "end")),
                           !.resp.speakArray = Append(@, Len(w.jobs) + 1)]
                   ELSE w
         IN [w1 EXCEPT !.resp.partialContent = <<>>]
    ELSE w

getPlayEndPromise(w) ==
    [w EXCEPT !.pe = Append(@, [turn |-> w.chat.answerId, st |-> "pending", by |-> "none",
                                byStale |-> FALSE, stale |-> FALSE, moved |-> FALSE,
                                open |-> FALSE]),
              !.resp.playEndResolve = Len(w.pe) + 1]

\* stop(): every job queued so far and every running chain is now stale
stop(w) ==
    LET w1 == [w EXCEPT !.resp.speakArray = <<>>,
                        !.resp.partialContent = <<>>,
                        !.resp.isPlaying = FALSE,
                        !.jobs = [j \in DOMAIN @ |-> [@[j] EXCEPT !.cut = TRUE]],
                        !.loops = [k \in DOMAIN @ |-> [@[k] EXCEPT !.stale = TRUE]]]
    IN stopPlaying(playEndResolve(w1, "stop", FALSE))

-----------------------------------------------------------------------------
(* VolcengineAsrClient (volcengine/volcengine-image-generation.ts).  An     *)
(* audio chunk is a number; a transmitted frame records its header and the *)
(* chunks its payload carries.                                              *)

\* constructor: the socket is created only with both credentials
NewClient(creds) ==
    [ws |-> IF creds THEN "connecting" ELSE "none",
     sendTimer |-> FALSE, audioBuffers |-> <<>>, frames |-> <<>>,
     sends |-> 0, ends |-> 0]

\* streamingASR is null: there is no client object
NoClient == [NewClient(FALSE) EXCEPT !.ws = "absent"]

\* this.ws.send(msg): only an open socket transmits
wsSend(w, frame) ==
    IF w.cli.ws = "open" THEN [w EXCEPT !.cli.frames = Append(@, frame)] ELSE w

\* sendChunk(chunk, isLastSegment)
sendChunk(w, data, isLastSegment) ==
    IF w.cli.ws = "none" THEN w
    ELSE wsSend(w, [header |-> IF isLastSegment THEN "last" ELSE "audio",
                    data |-> data])

\* send transmitting the chunk at once when the socket is open
clientSendDirect(w, c) ==
    IF w.cli.ws = "open"
    THEN [w EXCEPT !.cli.frames = Append(@, [header |-> "audio", data |-> <<c>>]),
                   !.cli.sends = @ + 1]
    ELSE [w EXCEPT !.cli.audioBuffers = Append(@, c), !.cli.sends = @ + 1]

\* send(audioData)
clientSend(w, c) ==
    [w EXCEPT !.cli.audioBuffers = Append(@, c), !.cli.sends = @ + 1]

\* close(): clearInterval, ws.close().  Closing a socket that has not opened
\* aborts the handshake; an open one starts the closing handshake
clientClose(w) ==
    [w EXCEPT !.cli.sendTimer = FALSE,
              !.cli.ws = CASE @ = "connecting" -> "aborting"
                           [] @ = "open" -> "closing"
                           [] OTHER -> @]

\* end(): clearInterval, then the buffered audio as one terminal frame
clientEnd(w) ==
    LET w1 == [w EXCEPT !.cli.sendTimer = FALSE, !.cli.ends = @ + 1]
    IN IF w1.cli.audioBuffers # <<>>
       THEN sendChunk(w1, w1.cli.audioBuffers, TRUE)
       ELSE w1

\* handleOpen starting the interval without sending the request
handleOpenNoRequest(w) == [w EXCEPT !.cli.sendTimer = TRUE]

\* handleOpen: the full client request, then the 500 ms interval
handleOpen(w) ==
    [wsSend(w, [header |-> "full", data |-> <<>>]) EXCEPT !.cli.sendTimer = TRUE]

\* the interval callback: splice the buffer and send it
sendTimerTick(w) ==
    IF w.cli.audioBuffers # <<>>
    THEN sendChunk([w EXCEPT !.cli.audioBuffers = <<>>], w.cli.audioBuffers, FALSE)
    ELSE w

-----------------------------------------------------------------------------
(* StreamingASR (cloud-api/streaming-asr.ts).  Recognized text is a number: *)
(* 0 is the empty string.  asr.seen is the last partial text received since *)
(* start(), kept for the properties only.                                   *)

NewStreamingASR(creds) ==
    [client |-> creds, isStreaming |-> FALSE, partialText |-> 0,
     threw |-> FALSE, seen |-> 0, ends |-> <<>>]

\* start(): throws without a client, returns when already streaming
asrStart(w) ==
    IF ~w.asr.client THEN [w EXCEPT !.asr.threw = TRUE]
    ELSE IF w.asr.isStreaming THEN w
    ELSE [w EXCEPT !.asr.isStreaming = TRUE, !.asr.partialText = 0, !.asr.seen = 0]

\* sendAudioChunk(chunk)
sendAudioChunk(w, c) ==
    IF ~w.asr.client \/ ~w.asr.isStreaming THEN w ELSE clientSend(w, c)

\* stop(): client.close(), then the fields are cleared
asrStop(w) ==
    LET w1 == IF w.asr.client THEN clientClose(w) ELSE w
    IN [w1 EXCEPT !.asr.isStreaming = FALSE, !.asr.partialText = 0]

NewEnd(turn, st, pending) ==
    [turn |-> turn, st |-> st, val |-> 0, by |-> "none", want |-> 0,
     timer |-> pending, listener |-> pending, stale |-> FALSE, moved |-> FALSE]

\* end(): "" at once when idle; otherwise a promise with its 2000 ms timer
\* and its once("final-result") listener, and client.end()
asrEnd(w, turn) ==
    IF ~w.asr.client \/ ~w.asr.isStreaming
    THEN [w EXCEPT !.asr.ends = Append(@, [NewEnd(turn, "resolved", FALSE)
                                             EXCEPT !.by = "idle"])]
    ELSE clientEnd([w EXCEPT !.asr.ends = Append(@, NewEnd(turn, "pending", TRUE))])

\* the timer callback of end(): resolve(this.partialText); isStreaming = false
asrEndTimeout(w, e) ==
    LET w1 == [w EXCEPT !.asr.ends[e].timer = FALSE, !.asr.isStreaming = FALSE]
    IN IF w.asr.ends[e].st = "pending"
       THEN [w1 EXCEPT !.asr.ends[e].st = "resolved",
                       !.asr.ends[e].by = "timer",
                       !.asr.ends[e].val = w.asr.partialText,
                       !.asr.ends[e].want = w.asr.seen]
       ELSE w1

\* the once("final-result") listeners of end(): clearTimeout, resolve(text),
\* isStreaming = false
finalResultListeners(w, text) ==
    LET L == {e \in DOMAIN w.asr.ends : w.asr.ends[e].listener}
    IN IF L = {} THEN w
       ELSE [w EXCEPT
               !.asr.isStreaming = FALSE,
               !.asr.ends = [e \in DOMAIN @ |->
                   IF e \notin L THEN @[e]
                   ELSE IF @[e].st = "pending"
                        THEN [@[e] EXCEPT !.listener = FALSE, !.timer = FALSE,
                                          !.st = "resolved", !.by = "final",
                                          !.val = text, !.want = text]
                        ELSE [@[e] EXCEPT !.listener = FALSE, !.timer = FALSE]]]

\* client.onMessage: a final result clears partialText and is emitted, a
\* non-final one replaces partialText
asrOnMessage(w, text, isFinal) ==
    IF isFinal
    THEN finalResultListeners([w EXCEPT !.asr.partialText = 0], text)
    ELSE [w EXCEPT !.asr.partialText = text, !.asr.seen = text]

\* client.onClose
asrOnClose(w) == [w EXCEPT !.asr.isStreaming = FALSE]

-----------------------------------------------------------------------------
(* ChatFlow (core/ChatFlow.ts)                                             *)

\* StreamingAudioWithVAD.start(): vad.reset(), AudioInputStream.start().
\* chat.recording is AudioInputStream.isRecording, chat.proc the sox process
\* this.process refers to ("alive" while it runs), chat.dying the processes
\* that were killed or failed and have not reported "close" yet, chat.leaked
\* the running processes this.process no longer refers to
audioStreamStart(w) ==
    IF w.chat.recording THEN [w EXCEPT !.chat.vadSpeaking = FALSE]
    ELSE [w EXCEPT !.chat.recording = TRUE,
                   !.chat.leaked = IF w.chat.proc = "alive" THEN @ + 1 ELSE @,
                   !.chat.proc = "alive",
                   !.chat.vadSpeaking = FALSE]

\* StreamingAudioWithVAD.stop(): AudioInputStream.stop(), vad.reset()
audioStreamStop(w) ==
    IF ~w.chat.recording \/ w.chat.proc = "none"
    THEN [w EXCEPT !.chat.vadSpeaking = FALSE]
    ELSE [w EXCEPT !.chat.recording = FALSE,
                   !.chat.proc = "none",
                   !.chat.dying = @ + 1,
                   !.chat.vadSpeaking = FALSE]

startVAD(w) ==
    IF ~w.chat.useVAD \/ w.chat.isVADActive THEN w
    ELSE LET w1 == [audioStreamStart(w) EXCEPT !.chat.isVADActive = TRUE]
         IN IF w.chat.streaming THEN asrStop(w1) ELSE w1

stopVAD(w) ==
    IF ~w.chat.useVAD \/ ~w.chat.isVADActive THEN w
    ELSE LET w1 == [audioStreamStop(w) EXCEPT !.chat.isVADActive = FALSE]
         IN IF w.chat.streaming THEN asrStop(w1) ELSE w1

\* recordAudioManually(path): a new recording promise; the release handler stops it
recordAudioManually(w) ==
    [w EXCEPT !.rec.recs = Append(@, [turn |-> w.chat.answerId, st |-> "pending"]),
              !.chat.btn = "noop",
              !.chat.rel = "recStop",
              !.chat.relRec = Len(w.rec.recs) + 1]

FlowSleep(w) ==
    LET w1 == [w EXCEPT !.chat.flow = "sleep"]
        w2 == IF w1.chat.useVAD THEN startVAD(w1) ELSE w1
    IN [w2 EXCEPT !.chat.btn = "sleep", !.chat.rel = "noop"]

FlowListening(w) ==
    LET w1 == [w EXCEPT !.chat.answerId = @ + 1,
                        !.chat.flow = "listening",
                        !.chat.asrText = 0]
    IN IF w1.chat.isVADTriggered /\ w1.chat.streaming
       THEN [asrStart([w1 EXCEPT !.chat.isVADTriggered = FALSE]) EXCEPT
                !.chat.btn = "listenVAD", !.chat.rel = "noop"]
       ELSE LET w2 == [w1 EXCEPT !.chat.isVADTriggered = FALSE]
                w3 == IF w2.chat.isVADActive THEN stopVAD(w2) ELSE w2
            IN recordAudioManually(w3)

\* case "asr" leaving the button handlers as the earlier state set them
FlowAsrKeepHandlers(w) ==
    IF w.chat.asrText # 0 /\ w.chat.streaming
    THEN [w EXCEPT !.chat.flow = "asr", !.chat.asrDelay = @ + 1]
    ELSE [w EXCEPT !.chat.flow = "asr",
                   !.rec.races = Append(@, [turn |-> w.chat.answerId, st |-> "pending",
                                            rcg |-> "pending"])]

\* case "asr": with text already delivered by the streaming recognizer a
\* 500 ms timer leads on to "answer" (and the button handlers stay as they
\* were); otherwise Promise.race of recognizeAudio and a button press
FlowAsr(w) ==
    IF w.chat.asrText # 0 /\ w.chat.streaming
    THEN [w EXCEPT !.chat.flow = "asr", !.chat.asrDelay = @ + 1]
    ELSE [w EXCEPT !.chat.flow = "asr",
                   !.rec.races = Append(@, [turn |-> w.chat.answerId, st |-> "pending",
                                            rcg |-> "pending"]),
                   !.chat.btn = "asrRace",
                   !.chat.rel = "noop",
                   !.chat.btnRace = Len(w.rec.races) + 1]

FlowAnswer(w) ==
    LET w1 == IF w.chat.isVADActive THEN stopVAD(w) ELSE w
        w2 == [w1 EXCEPT !.chat.flow = "answer",
                         !.chat.partialThinking = <<>>,
                         !.chat.thinkingSentences = 0,
                         !.llm = Append(@, [turn |-> w.chat.answerId, st |-> "open",
                                            n |-> 0, fedStale |-> FALSE])]
    IN [getPlayEndPromise(w2) EXCEPT !.chat.btn = "answer", !.chat.rel = "noop"]

\* case "image" installs its handler and leaves currentFlowName as it is
FlowImage(w) == [w EXCEPT !.chat.btn = "image", !.chat.rel = "noop"]

\* chat.entered keeps the argument of the last call, for the properties
setCurrentFlow(w, flowName) ==
    LET w0 == [w EXCEPT !.chat.entered = flowName]
    IN CASE flowName = "sleep" -> FlowSleep(w0)
         [] flowName = "listening" -> FlowListening(w0)
         [] flowName = "asr" -> FlowAsr(w0)
         [] flowName = "answer" -> FlowAnswer(w0)
         [] flowName = "image" -> FlowImage(w0)

\* partialThinkingCallback
partialThinkingCallback(w, text) ==
    LET sp == splitSentences(w.chat.partialThinking \o text)
    IN [w EXCEPT !.chat.thinkingSentences = @ + Len(sp.sentences),
                 !.chat.partialThinking = sp.remaining]

\* getPlayEndPromise().then(...): run, at the end of the macrotask, for the
\* promise that was resolved in it; img is what getLatestDisplayImg returns
RunPlayEndCallback(w, img) ==
    LET fired == {p \in DOMAIN w.pe : w.pe[p].st = "fired"}
    IN IF fired = {} THEN w
       ELSE LET p  == CHOOSE q \in fired : TRUE
                w1 == [w EXCEPT !.pe[p].st = "done",
                                !.pe[p].stale = (w.chat.answerId # w.pe[p].turn),
                                !.pe[p].moved = (w.chat.flow = "answer"),
                                !.pe[p].open = \E k \in DOMAIN w.llm :
                                      w.llm[k].turn = w.pe[p].turn /\ w.llm[k].st = "open"]
            IN IF w.chat.flow = "answer"
               THEN IF img THEN setCurrentFlow(w1, "image")
                    ELSE setCurrentFlow(w1, "sleep")
               ELSE w1

-----------------------------------------------------------------------------
(* Specification Spec: the controller with its responser, player and       *)
(* recognizer.  The recognizer connection is closed by the first startVAD  *)
(* (streamingASR.stop() -> client.close()), so no recognition message is   *)
(* ever delivered here; message handling is specified under SpecAsr.       *)

MaxEnds == 2       \* calls of StreamingASR.end() in one run
MaxDying == 1      \* capture processes whose "close" is outstanding
MaxLeaked == 1     \* running capture processes without a reference

Idle == "idle"

Commit(w) ==
    /\ w.chat.answerId <= MaxTurns
    /\ w.chat.dying <= MaxDying /\ w.chat.leaked <= MaxLeaked
    /\ Len(w.asr.ends) <= MaxEnds
    /\ chat' = w.chat /\ resp' = w.resp /\ jobs' = w.jobs /\ loops' = w.loops
    /\ player' = w.player /\ pe' = w.pe /\ llm' = w.llm /\ asr' = w.asr
    /\ rec' = w.rec /\ cli' = w.cli
    /\ UNCHANGED <<vad, seg, frm>>

\* a macrotask ends by running the then-callbacks it released
Task(w) == \E img \in BOOLEAN : Commit(RunPlayEndCallback(w, img))

Chat0(useVAD, streaming) ==
    [flow |-> "", entered |-> "", answerId |-> 0, asrText |-> 0,
     useVAD |-> useVAD, streaming |-> streaming,
     isVADActive |-> FALSE, isVADTriggered |-> FALSE,
     recording |-> FALSE, proc |-> "none", dying |-> 0, leaked |-> 0,
     vadSpeaking |-> FALSE,
     btn |-> "noop", rel |-> "noop", relRec |-> 0, btnRace |-> 0, down |-> FALSE,
     asrDelay |-> 0, partialThinking |-> <<>>, thinkingSentences |-> 0,
     legacy |-> FALSE]

\* ChatFlow.ts defines the class twice: the definition with voice activity
\* detection and, below it, one without (legacy), which differs from the
\* first with USE_VAD=false only in the button handler of case "image"
World0(useVAD, streaming, legacy) ==
    [chat |-> [Chat0(useVAD, streaming) EXCEPT !.legacy = legacy],
     resp |-> [partialContent |-> <<>>, speakArray |-> <<>>, isPlaying |-> FALSE,
               playEndResolve |-> 0],
     jobs |-> <<>>, loops |-> <<>>,
     player |-> [isPlaying |-> FALSE, played |-> <<>>, halts |-> 0],
     pe |-> <<>>, llm |-> <<>>,
     asr |-> NewStreamingASR(streaming),
     rec |-> [recs |-> <<>>, races |-> <<>>],
     cli |-> IF streaming THEN NewClient(TRUE) ELSE NoClient]

\* new ChatFlow(): the fields, setupVADHandlers, setCurrentFlow("sleep")
ChatFlowInit ==
    \E useVAD \in BOOLEAN, streaming \in BOOLEAN, legacy \in BOOLEAN :
        /\ streaming => useVAD
        /\ legacy => ~useVAD
        /\ LET w == setCurrentFlow(World0(useVAD, streaming, legacy), "sleep")
           IN /\ chat = w.chat /\ resp = w.resp /\ jobs = w.jobs /\ loops = w.loops
              /\ player = w.player /\ pe = w.pe /\ llm = w.llm /\ asr = w.asr
              /\ rec = w.rec /\ cli = w.cli

Init ==
    /\ ChatFlowInit
    /\ vad = Idle /\ seg = Idle /\ frm = Idle

\* ---- button ---------------------------------------------------------------

\* settling the Promise.race of case "asr" runs its then-callback
raceSettle(w, k, userPress, result) ==
    IF w.rec.races[k].st # "pending" THEN w
    ELSE LET w1 == [w EXCEPT !.rec.races[k].st = "settled"]
         IN IF w1.chat.flow # "asr" THEN w1
            ELSE IF userPress THEN setCurrentFlow(w1, "listening")
            ELSE IF result # 0
                 THEN setCurrentFlow([w1 EXCEPT !.chat.asrText = result], "answer")
                 ELSE setCurrentFlow(w1, "sleep")

buttonPressed(w) ==
    CASE w.chat.btn = "sleep" ->
            LET w1 == IF w.chat.isVADActive THEN stopVAD(w) ELSE w
            IN setCurrentFlow([w1 EXCEPT !.chat.isVADTriggered = FALSE], "listening")
      [] w.chat.btn = "listenVAD" ->
            setCurrentFlow([asrStop(w) EXCEPT !.chat.isVADTriggered = FALSE], "listening")
      [] w.chat.btn = "asrRace" -> raceSettle(w, w.chat.btnRace, TRUE, 0)
      [] w.chat.btn = "answer" -> setCurrentFlow(stop(w), "listening")
      [] w.chat.btn = "image" ->
            setCurrentFlow(w, IF w.chat.legacy THEN "listening" ELSE "sleep")
      [] w.chat.btn = "noop" -> w

\* the release handler of a manual recording: stop() resolves the recording
\* promise, whose then-callback enters "asr"
buttonReleased(w) ==
    IF w.chat.rel = "recStop" /\ w.rec.recs[w.chat.relRec].st = "pending"
    THEN setCurrentFlow([w EXCEPT !.rec.recs[w.chat.relRec].st = "resolved"], "asr")
    ELSE w

ButtonPress ==
    /\ ~chat.down
    /\ Task(buttonPressed([World EXCEPT !.chat.down = TRUE]))

ButtonRelease ==
    /\ chat.down
    /\ Task(buttonReleased([World EXCEPT !.chat.down = FALSE]))

\* exec's callback of a manual recording reports an error
RecordingError ==
    \E r \in DOMAIN rec.recs :
        /\ rec.recs[r].st = "pending"
        /\ Task(setCurrentFlow([World EXCEPT !.rec.recs[r].st = "rejected"], "sleep"))

\* recognizeAudio(path) resolves with text (the turn's number) or with ""
RecognizeDone ==
    \E k \in DOMAIN rec.races, ok \in BOOLEAN :
        /\ rec.races[k].rcg = "pending"
        /\ Task(raceSettle([World EXCEPT !.rec.races[k].rcg = "done"], k, FALSE,
                           IF ok THEN rec.races[k].turn ELSE 0))

\* ---- voice activity and the streaming recognizer -------------------------

\* end().then((text) => ...) of the speech-end handler
asrEndCallback(w, e, text) ==
    LET w1 == [w EXCEPT !.asr.ends[e].stale = (w.chat.answerId # w.asr.ends[e].turn),
                        !.asr.ends[e].moved = (w.chat.flow = "listening")]
    IN IF w1.chat.flow # "listening" THEN w1
       ELSE IF text # 0
            THEN setCurrentFlow([w1 EXCEPT !.chat.asrText = text], "asr")
            ELSE setCurrentFlow(w1, "sleep")

speechStartHandler(w) ==
    IF w.chat.flow # "sleep" THEN w
    ELSE setCurrentFlow([w EXCEPT !.chat.isVADTriggered = TRUE], "listening")

speechEndHandler(w) ==
    IF w.chat.flow # "listening" THEN w
    ELSE IF w.chat.streaming
         THEN LET w1 == asrEnd(sendAudioChunk(w, w.chat.answerId), w.chat.answerId)
                  e  == Len(w1.asr.ends)
              IN IF w1.asr.ends[e].st = "resolved"
                 THEN asrEndCallback(w1, e, w1.asr.ends[e].val)
                 ELSE w1
         ELSE setCurrentFlow(w, "sleep")

\* a capture process is running and delivers chunks
Capturing == chat.proc = "alive" \/ chat.leaked > 0

\* SimpleVAD emits speech-start / speech-end alternately while capture runs
SpeechStart ==
    /\ Capturing /\ ~chat.vadSpeaking
    /\ Task(speechStartHandler([World EXCEPT !.chat.vadSpeaking = TRUE]))

SpeechEnd ==
    /\ Capturing /\ chat.vadSpeaking
    /\ Task(speechEndHandler([World EXCEPT !.chat.vadSpeaking = FALSE]))

\* the capture process reports "error" (it could not be spawned or failed):
\* isRecording = false, then audioStream.on("error") of the controller; the
\* process will report "close"
CaptureError ==
    /\ chat.proc = "alive"
    /\ LET w1 == [World EXCEPT !.chat.recording = FALSE, !.chat.proc = "none",
                               !.chat.dying = @ + 1, !.chat.isVADActive = FALSE]
       IN Task(IF w1.chat.flow \in {"sleep", "listening"}
               THEN setCurrentFlow(w1, "sleep") ELSE w1)

\* a capture process that was killed or failed reports "close": the handler
\* registered by start() sets isRecording = false and emits "end"
CaptureClose ==
    /\ chat.dying > 0
    /\ Task([World EXCEPT !.chat.dying = @ - 1, !.chat.recording = FALSE])

\* the 2000 ms timer of end() fires; the then-callback of the speech-end
\* handler runs when this resolves the promise
AsrEndTimer ==
    \E e \in DOMAIN asr.ends :
        /\ asr.ends[e].timer
        /\ LET w1 == asrEndTimeout(World, e)
           IN IF asr.ends[e].st = "pending"
              THEN Task(asrEndCallback(w1, e, w1.asr.ends[e].val))
              ELSE Task(w1)

\* the socket closed by close() before it opened reports "error" and
\* "close": streamingASR.on("error") of the controller, then client.onClose
streamingErrorHandler(w) ==
    IF w.chat.flow \in {"listening", "asr"} THEN setCurrentFlow(w, "sleep") ELSE w

WsAborted ==
    /\ cli.ws = "aborting"
    /\ Task(asrOnClose(streamingErrorHandler([World EXCEPT !.cli.ws = "closed"])))

\* ---- the language-model stream -------------------------------------------

\* (text) => currentAnswerId === this.answerId && partial(text)
LLMPartial ==
    \E k \in DOMAIN llm, text \in LLMFrags :
        /\ llm[k].st = "open" /\ llm[k].n < MaxFrags
        /\ LET w1 == [World EXCEPT !.llm[k].n = @ + 1]
               w2 == IF llm[k].turn = chat.answerId THEN partial(w1, text) ELSE w1
           IN Task([w2 EXCEPT !.llm[k].fedStale =
                        @ \/ (llm[k].turn # chat.answerId /\ w2 # w1)])

\* (partialThinking) => currentAnswerId === this.answerId && partialThinkingCallback(..)
LLMThinking ==
    \E k \in DOMAIN llm, text \in LLMFrags :
        /\ llm[k].st = "open" /\ llm[k].n < MaxFrags
        /\ LET w1 == [World EXCEPT !.llm[k].n = @ + 1]
               w2 == IF llm[k].turn = chat.answerId
                     THEN partialThinkingCallback(w1, text) ELSE w1
           IN Task([w2 EXCEPT !.llm[k].fedStale =
                        @ \/ (llm[k].turn # chat.answerId /\ w2 # w1)])

\* () => currentAnswerId === this.answerId && endPartial()
LLMEnd ==
    \E k \in DOMAIN llm :
        /\ llm[k].st = "open"
        /\ LET w1 == [World EXCEPT !.llm[k].st = "closed"]
               w2 == IF llm[k].turn = chat.answerId THEN endPartial(w1) ELSE w1
           IN Task([w2 EXCEPT !.llm[k].fedStale =
                        @ \/ (llm[k].turn # chat.answerId /\ w2 # w1)])

\* ---- synthesis and playback ----------------------------------------------

\* the chains awaiting job j go on to playAudioData, in the order they suspended
RECURSIVE ResumeAwaiting(_, _, _)
ResumeAwaiting(w, j, k) ==
    IF k > Len(w.loops) THEN w
    ELSE IF w.loops[k].pc = "job" /\ w.loops[k].job = j
         THEN ResumeAwaiting([playAudioData(w, j) EXCEPT !.loops[k].pc = "play"], j, k + 1)
         ELSE ResumeAwaiting(w, j, k + 1)

\* the .finally() callback attached to the synthesis promise
jobFinally(w, j) ==
    CASE w.jobs[j].trig = "first" -> playAudioInOrder(w)
      [] w.jobs[j].trig = "end" -> IF ~w.resp.isPlaying THEN playAudioInOrder(w) ELSE w
      [] w.jobs[j].trig = "none" -> w

\* ttsFunc's promise resolves: its finally callback runs, then the chains
\* awaiting the derived promise resume, all in the same macrotask
JobResolve ==
    \E j \in DOMAIN jobs :
        /\ jobs[j].st = "pending"
        /\ LET w1 == jobFinally([World EXCEPT !.jobs[j].st = "resolved"], j)
           IN Task(ResumeAwaiting(w1, j, 1))

\* the promise of playAudioData settles; currentIndex++; playNext()
PlayDone ==
    \E k \in DOMAIN loops :
        /\ loops[k].pc = "play"
        /\ LET l  == loops[k]
               w1 == [World EXCEPT !.loops = RemoveAt(@, k), !.player.isPlaying = FALSE]
           IN Task(playNext(w1, [l EXCEPT !.idx = @ + 1, !.halted = FALSE]))

\* the one-second poll of playNext
PollTimer ==
    \E k \in DOMAIN loops :
        /\ loops[k].pc = "poll"
        /\ Task(playNext([World EXCEPT !.loops = RemoveAt(@, k)], loops[k]))

Next ==
    \/ ButtonPress
    \/ ButtonRelease
    \/ RecordingError
    \/ RecognizeDone
    \/ SpeechStart
    \/ SpeechEnd
    \/ CaptureError
    \/ CaptureClose
    \/ AsrEndTimer
    \/ WsAborted
    \/ LLMPartial
    \/ LLMThinking
    \/ LLMEnd
    \/ JobResolve
    \/ PlayDone
    \/ PollTimer

Spec == Init /\ [][Next]_vars

-----------------------------------------------------------------------------
(* Properties of Spec: playback order, stale callbacks, barge-in           *)

Played == {player.played[i] : i \in DOMAIN player.played}

\* the jobs of one answer reach playAudioData in increasing index order, so
\* none is played twice
OrderOK ==
    \A a, b \in DOMAIN player.played :
        (a < b /\ jobs[player.played[a]].turn = jobs[player.played[b]].turn)
            => player.played[a] < player.played[b]

\* no job is played before every earlier job of its answer has been played
Gapless ==
    \A b \in DOMAIN player.played : \A j \in DOMAIN jobs :
        (j < player.played[b] /\ jobs[j].turn = jobs[player.played[b]].turn)
            => \E a \in 1..(b - 1) : player.played[a] = j

\* two chains never await playAudioData of the same answer at the same time
NoOverlap ==
    \A k1, k2 \in DOMAIN loops :
        (k1 # k2 /\ loops[k1].pc = "play" /\ loops[k2].pc = "play")
            => jobs[loops[k1].job].turn # jobs[loops[k2].job].turn

\* C1: the synthesis jobs of one answer are handed to playAudioData in index
\* order, each at most once and none skipped, and job i+1 is not started
\* before the playback of job i has completed.
C1_PlaysInOrder == OrderOK /\ Gapless /\ NoOverlap

\* C2: a callback started in turn T that fires after answerId has advanced
\* changes neither the controller state nor the responser: no stale
\* playback-finished callback, no stale end() result and no stale LLM
\* callback has had an effect.
C2_StaleCallbacksInert ==
    /\ \A p \in DOMAIN pe : (pe[p].st = "done" /\ pe[p].stale) => ~pe[p].moved
    /\ \A e \in DOMAIN asr.ends :
           (asr.ends[e].st = "resolved" /\ asr.ends[e].stale) => ~asr.ends[e].moved
    /\ \A k \in DOMAIN llm : ~llm[k].fedStale

\* the step is a button press handled by the handler of case "answer"
BargeInStep == chat.btn = "answer" /\ ~chat.down /\ chat'.down

\* the jobs handed to playAudioData by the step
NewlyPlayed == {player'.played[i] : i \in (Len(player.played) + 1)..Len(player'.played)}

\* C3: barge-in.  A button press in the answer state halts the player and
\* leaves the controller in listening when the handler returns, and from
\* then on no sentence of the interrupted answer is handed to playAudioData.
C3_BargeIn ==
    [][/\ BargeInStep => (chat'.flow = "listening" /\ ~player'.isPlaying
                             /\ resp'.speakArray = <<>>)
       /\ \A j \in NewlyPlayed : ~jobs'[j].cut]_vars

\* C8: the play-end promise of an answer is resolved by the playback chain
\* only after endPartial was called (the LLM stream is closed) and every job
\* of that answer has been played.
C8_PlayEndAfterAll ==
    \A p \in DOMAIN pe :
        (pe[p].st = "done" /\ pe[p].by = "loop")
            => /\ ~pe[p].open
               /\ \A j \in DOMAIN jobs : jobs[j].turn = pe[p].turn => j \in Played

\* C9: after stop() has returned, no job that was queued before the stop is
\* passed to playAudioData.
C9_NoPlayAfterStop == \A j \in DOMAIN jobs : ~jobs[j].late

-----------------------------------------------------------------------------
(* Specification SpecAsr: StreamingASR and its VolcengineAsrClient on their *)
(* own, with or without credentials, driven by calls and socket events.     *)

MaxChunks == 2     \* calls of VolcengineAsrClient.send in one run
MaxText == 2       \* distinct recognized texts

CommitAsr(w) ==
    /\ asr' = w.asr /\ cli' = w.cli
    /\ UNCHANGED <<chat, resp, jobs, loops, player, pe, llm, rec, vad, seg, frm>>

\* new StreamingASR({server: volcengine}) with or without the credentials;
\* without them the client record is a VolcengineAsrClient built directly
\* with empty appid and token
InitAsr ==
    /\ \E creds \in BOOLEAN :
          /\ asr = NewStreamingASR(creds)
          /\ cli = NewClient(creds)
    /\ chat = Idle /\ resp = Idle /\ jobs = Idle /\ loops = Idle /\ player = Idle
    /\ pe = Idle /\ llm = Idle /\ rec = Idle
    /\ vad = Idle /\ seg = Idle /\ frm = Idle

StartCall == CommitAsr(asrStart(World))

SendAudioChunkCall ==
    /\ cli.sends < MaxChunks
    /\ CommitAsr(sendAudioChunk(World, cli.sends + 1))

EndCall ==
    /\ Len(asr.ends) < MaxEnds /\ cli.ends < MaxEnds
    /\ CommitAsr(asrEnd(World, 0))

StopCall == CommitAsr(asrStop(World))

\* the client used directly, as recognizeAudio does
ClientSendCall ==
    /\ cli.sends < MaxChunks
    /\ CommitAsr(clientSend(World, cli.sends + 1))

ClientEndCall ==
    /\ cli.ends < MaxEnds
    /\ CommitAsr(clientEnd(World))

\* ws "open"
WsOpen ==
    /\ cli.ws = "connecting"
    /\ CommitAsr(handleOpen([World EXCEPT !.cli.ws = "open"]))

\* the 500 ms interval fires
SendTimerTick ==
    /\ cli.sendTimer
    /\ CommitAsr(sendTimerTick(World))

\* ws "message": handleMessage -> parseResponse -> onMessage with result[0]
WsMessage ==
    \E text \in 1..MaxText, isFinal \in BOOLEAN :
        /\ cli.ws \in {"open", "closing"}
        /\ CommitAsr(asrOnMessage(World, text, isFinal))

\* ws "close": handleClose -> onClose
WsClose ==
    /\ cli.ws \in {"open", "closing", "aborting"}
    /\ CommitAsr(asrOnClose([World EXCEPT !.cli.ws = "closed"]))

\* the 2000 ms timer of an end() call fires
EndTimeout ==
    \E e \in DOMAIN asr.ends :
        /\ asr.ends[e].timer
        /\ CommitAsr(asrEndTimeout(World, e))

NextAsr ==
    \/ StartCall
    \/ SendAudioChunkCall
    \/ EndCall
    \/ StopCall
    \/ ClientSendCall
    \/ ClientEndCall
    \/ WsOpen
    \/ SendTimerTick
    \/ WsMessage
    \/ WsClose
    \/ EndTimeout

SpecAsr == InitAsr /\ [][NextAsr]_vars

\* C4: the promise of end() on an active stream is resolved by the first
\* final result that arrives before the 2000 ms timer with that result's
\* text, otherwise by the timer with the last partial text seen since
\* start() (the empty string if none was seen), and while it is pending its
\* timer is armed.
C4_EndResolution ==
    \A e \in DOMAIN asr.ends :
        /\ asr.ends[e].st = "pending" => asr.ends[e].timer
        /\ asr.ends[e].by \in {"timer", "final"} => asr.ends[e].val = asr.ends[e].want

\* C10: without credentials no socket exists, no operation throws, nothing
\* is transmitted and no state changes: the stream is never marked active
\* and no audio is kept in the outbound buffer.
C10_NoCredentialsNoOp ==
    cli.ws = "none" =>
        /\ ~asr.threw
        /\ ~asr.isStreaming
        /\ cli.frames = <<>>
        /\ cli.audioBuffers = <<>>
        /\ ~cli.sendTimer
        /\ \A e \in DOMAIN asr.ends : asr.ends[e].by = "idle"

-----------------------------------------------------------------------------
(* SimpleVAD and the chunk buffer of StreamingAudioWithVAD                   *)
(* (device/battery.ts).  Time is counted in units of 100 ms; vad.now is     *)
(* Date.now().  vad.log records, for the properties, every chunk processed  *)
(* since the last reset() with the event it produced; a chunk is named by   *)
(* its position in the log.  vad.audioData is the buffer passed with the    *)
(* last speech-end since the reset, vad.endAt the chunk that triggered it;  *)
(* vad.lastEvent and vad.storm follow the events of the whole run;          *)
(* vad.errors counts the "error" events StreamingAudioWithVAD has emitted;  *)
(* vad.handed lists the chunks the controller's audio-chunk and speech-end  *)
(* handlers have passed to sendAudioChunk since the last speech-start.      *)

EnergyThreshold == 1   \* energyThreshold; energies range over 0..MaxEnergy
SpeechDuration == 2    \* speechDuration: 200 ms
SilenceDuration == 3   \* silenceDuration, passed as a constructor option: 300 ms
StartTime == 5         \* Date.now() when the object is constructed
MaxTime == 11          \* the clock stops here
MaxLog == 4            \* chunks processed after one reset
MaxEnergy == 2

NewVAD ==
    [isSpeaking |-> FALSE, lastSpeechTime |-> 0, lastSilenceTime |-> 0,
     now |-> StartTime, wasReset |-> FALSE, resetAt |-> 0, log |-> <<>>,
     isBuffering |-> FALSE, buffer |-> <<>>, audioData |-> <<>>, endAt |-> 0,
     lastEvent |-> "none", storm |-> FALSE, errors |-> 0, handed |-> <<>>]

LogEntry(v, isSpeech, event) == [t |-> v.now, speech |-> isSpeech, event |-> event]

\* processChunk with the start comparison taken strictly
processChunkStrict(v, energy) ==
    LET isSpeech == energy > EnergyThreshold
    IN IF isSpeech
       THEN LET v1 == [v EXCEPT !.lastSpeechTime = v.now]
            IN IF ~v.isSpeaking /\ v.now - v.lastSilenceTime > SpeechDuration
               THEN [v1 EXCEPT !.isSpeaking = TRUE,
                               !.log = Append(@, LogEntry(v, TRUE, "speech-start"))]
               ELSE [v1 EXCEPT !.log = Append(@, LogEntry(v, TRUE, "none"))]
       ELSE LET v1 == [v EXCEPT !.lastSilenceTime = v.now]
            IN IF v.isSpeaking /\ v.now - v.lastSpeechTime >= SilenceDuration
               THEN [v1 EXCEPT !.isSpeaking = FALSE,
                               !.log = Append(@, LogEntry(v, FALSE, "speech-end"))]
               ELSE [v1 EXCEPT !.log = Append(@, LogEntry(v, FALSE, "none"))]

\* processChunk without the isSpeaking latch on speech-start
processChunkNoLatch(v, energy) ==
    LET isSpeech == energy > EnergyThreshold
    IN IF isSpeech
       THEN LET v1 == [v EXCEPT !.lastSpeechTime = v.now]
            IN IF v.now - v.lastSilenceTime >= SpeechDuration
               THEN [v1 EXCEPT !.isSpeaking = TRUE,
                               !.log = Append(@, LogEntry(v, TRUE, "speech-start"))]
               ELSE [v1 EXCEPT !.log = Append(@, LogEntry(v, TRUE, "none"))]
       ELSE LET v1 == [v EXCEPT !.lastSilenceTime = v.now]
            IN IF v.isSpeaking /\ v.now - v.lastSpeechTime >= SilenceDuration
               THEN [v1 EXCEPT !.isSpeaking = FALSE,
                               !.log = Append(@, LogEntry(v, FALSE, "speech-end"))]
               ELSE [v1 EXCEPT !.log = Append(@, LogEntry(v, FALSE, "none"))]

\* processChunk(chunk), from the chunk's RMS energy on
processChunk(v, energy) ==
    LET isSpeech == energy > EnergyThreshold
    IN IF isSpeech
       THEN LET v1 == [v EXCEPT !.lastSpeechTime = v.now]
            IN IF ~v.isSpeaking /\ v.now - v.lastSilenceTime >= SpeechDuration
               THEN [v1 EXCEPT !.isSpeaking = TRUE,
                               !.log = Append(@, LogEntry(v, TRUE, "speech-start"))]
               ELSE [v1 EXCEPT !.log = Append(@, LogEntry(v, TRUE, "none"))]
       ELSE LET v1 == [v EXCEPT !.lastSilenceTime = v.now]
            IN IF v.isSpeaking /\ v.now - v.lastSpeechTime >= SilenceDuration
               THEN [v1 EXCEPT !.isSpeaking = FALSE,
                               !.log = Append(@, LogEntry(v, FALSE, "speech-end"))]
               ELSE [v1 EXCEPT !.log = Append(@, LogEntry(v, FALSE, "none"))]

\* reset() that only forces not-speaking and keeps the timestamps
vadResetKeepTimes(v) ==
    [v EXCEPT !.isSpeaking = FALSE,
              !.wasReset = TRUE, !.resetAt = v.now, !.log = <<>>,
              !.audioData = <<>>, !.endAt = 0, !.handed = <<>>]

\* reset()
vadReset(v) ==
    [v EXCEPT !.isSpeaking = FALSE, !.lastSpeechTime = 0, !.lastSilenceTime = v.now,
              !.wasReset = TRUE, !.resetAt = v.now, !.log = <<>>,
              !.audioData = <<>>, !.endAt = 0, !.handed = <<>>]

\* the vad.on("speech-start") / vad.on("speech-end") handlers of
\* StreamingAudioWithVAD, run by the emit inside processChunk; the
\* controller's speech-end handler passes audioData to sendAudioChunk
vadHandlers(v) ==
    LET i  == Len(v.log)
        ev == v.log[i].event
        v1 == [v EXCEPT !.lastEvent = IF ev = "none" THEN @ ELSE ev,
                        !.storm = @ \/ (ev # "none" /\ ev = v.lastEvent)
                                    \/ (ev = "speech-end" /\ v.lastEvent = "none")]
    IN CASE ev = "speech-start" -> [v1 EXCEPT !.isBuffering = TRUE, !.buffer = <<>>,
                                              !.handed = <<>>]
         [] ev = "speech-end" -> [v1 EXCEPT !.isBuffering = FALSE,
                                            !.audioData = v.buffer,
                                            !.endAt = i,
                                            !.buffer = <<>>,
                                            !.handed = @ \o v.buffer]
         [] OTHER -> v1

\* the data handler pushing the chunk before the detector has seen it
onDataPushFirst(v, energy) ==
    LET v1 == IF v.isBuffering
              THEN [v EXCEPT !.buffer = Append(@, Len(v.log) + 1),
                             !.handed = Append(@, Len(v.log) + 1)]
              ELSE v
    IN vadHandlers(processChunk(v1, energy))

\* audioStream.on("data"): vad.processChunk(chunk), then the chunk is
\* buffered while isBuffering and emitted as "audio-chunk", which the
\* controller's handler passes to sendAudioChunk
onData(v, energy) ==
    LET v1 == vadHandlers(processChunk(v, energy))
    IN IF v1.isBuffering
       THEN [v1 EXCEPT !.buffer = Append(@, Len(v1.log)),
                       !.handed = Append(@, Len(v1.log))]
       ELSE v1

-----------------------------------------------------------------------------
(* Specification SpecVad: the SimpleVAD of a StreamingAudioWithVAD fed      *)
(* chunks of any energy at any times, with reset() at any moment.           *)

MaxBuffer == 4    \* chunks held in the buffer of StreamingAudioWithVAD

CommitVad(v) ==
    /\ vad' = v
    /\ UNCHANGED <<chat, resp, jobs, loops, player, pe, llm, asr, rec, cli, seg, frm>>

InitVad ==
    /\ vad = NewVAD
    /\ chat = Idle /\ resp = Idle /\ jobs = Idle /\ loops = Idle /\ player = Idle
    /\ pe = Idle /\ llm = Idle /\ asr = Idle /\ rec = Idle /\ cli = Idle
    /\ seg = Idle /\ frm = Idle

VadChunk ==
    \E energy \in 0..MaxEnergy :
        /\ Len(vad.log) < MaxLog /\ Len(vad.buffer) < MaxBuffer
        /\ CommitVad(onData(vad, energy))

VadReset == CommitVad(vadReset(vad))

ClockTick ==
    /\ vad.now < MaxTime
    /\ CommitVad([vad EXCEPT !.now = @ + 1])

NextVad ==
    \/ VadChunk
    \/ VadReset
    \/ ClockTick

SpecVad == InitVad /\ [][NextVad]_vars

\* the detector was speaking when chunk i of the log arrived
SpeakingBefore(i) ==
    \E k \in 1..(i - 1) :
        /\ vad.log[k].event = "speech-start"
        /\ \A m \in (k + 1)..(i - 1) : vad.log[m].event # "speech-end"

\* when the last chunk at or below the threshold before chunk i was
\* processed, or the reset if there was none
QuietSince(i) ==
    LET quiet == {k \in 1..(i - 1) : ~vad.log[k].speech}
    IN IF quiet = {} THEN vad.resetAt
       ELSE vad.log[CHOOSE k \in quiet : \A m \in quiet : m <= k].t

\* when the unbroken run of chunks above the threshold that ends with chunk i
\* began
RiseSince(i) ==
    LET run == {k \in 1..i : \A m \in k..i : vad.log[m].speech}
    IN vad.log[CHOOSE k \in run : \A m \in run : k <= m].t

-----------------------------------------------------------------------------
(* The recognizer's wire format (volcengine-image-generation.ts).  A buffer *)
(* is a sequence of bytes.  JSON.stringify writes a request as "{", one     *)
(* byte per field, "}"; gzip wraps data in its two magic bytes and a length *)
(* trailer and transforms every byte.                                       *)

Byte == 0..255

DefaultFullClientWsHeader == <<17, 16, 17, 0>>     \* 0x11 0x10 0x11 0x00
ServerFullResponseHeader == <<17, 144, 17, 0>>     \* 0x11 0x90 0x11 0x00
SERVER_FULL_RESPONSE == 9
SERVER_ACK == 11
SERVER_ERROR_RESPONSE == 15
GZIP == 1
JSON_TYPE == 1

MaxId == 2       \* appid, token and uid range over 1..MaxId
MaxReqid == 3    \* request ids range over 1..MaxReqid

Requests ==
    [appid : 1..MaxId, token : 1..MaxId, uid : 1..MaxId, reqid : 1..MaxReqid]

\* what parseResponse returns for a frame without payload: {}
EmptyObject == [empty |-> TRUE]

\* JSON.stringify(req) / JSON.parse(text)
JsonStringify(v) == <<123, 48 + v.appid, 48 + v.token, 48 + v.uid, 48 + v.reqid, 125>>

JsonParse(b) ==
    IF Len(b) = 6 /\ b[1] = 123 /\ b[6] = 125
    THEN [appid |-> b[2] - 48, token |-> b[3] - 48, uid |-> b[4] - 48,
          reqid |-> b[5] - 48]
    ELSE [syntaxError |-> TRUE]

\* zlib.gzipSync / zlib.gunzipSync
gzipCompress(b) ==
    <<31, 139>> \o [i \in 1..Len(b) |-> (b[i] + 128) % 256] \o <<Len(b) % 256>>

gzipDecompress(b) ==
    IF Len(b) >= 3 /\ b[1] = 31 /\ b[2] = 139 /\ b[Len(b)] = (Len(b) - 3) % 256
    THEN [i \in 1..(Len(b) - 3) |-> (b[i + 2] + 128) % 256]
    ELSE <<>>

\* writeUInt32BE(n, 0) into Buffer.alloc(4) / readUInt32BE(offset)
writeUInt32BE(n) ==
    <<(n \div 16777216) % 256, (n \div 65536) % 256, (n \div 256) % 256, n % 256>>

readUInt32BE(b, offset) ==
    b[offset + 1] * 16777216 + b[offset + 2] * 65536 + b[offset + 3] * 256
        + b[offset + 4]

\* buf.slice(from)
Slice(b, from) == SubSeq(b, from + 1, Len(b))

\* a frame: header, payload size, compressed payload
Frame(header, payloadSize, compressed) ==
    header \o writeUInt32BE(payloadSize) \o compressed

\* handleOpen writing the length of the uncompressed request
fullClientMsgRawLength(req) ==
    LET reqBuffer == JsonStringify(req)
    IN Frame(DefaultFullClientWsHeader, Len(reqBuffer), gzipCompress(reqBuffer))

\* handleOpen: the frame built from constructRequest()
fullClientMsg(req) ==
    LET compressedReq == gzipCompress(JsonStringify(req))
    IN Frame(DefaultFullClientWsHeader, Len(compressedReq), compressedReq)

\* a full server response carrying the value v
serverFullResponse(v) ==
    LET compressed == gzipCompress(JsonStringify(v))
    IN Frame(ServerFullResponseHeader, Len(compressed), compressed)

\* parseResponse(msgBuffer)
parseResponse(msgBuffer) ==
    LET headerSize == msgBuffer[1] % 16
        headerBytes == headerSize * 4
        messageType == msgBuffer[2] \div 16
        serializationMethod == msgBuffer[3] \div 16
        messageCompression == msgBuffer[3] % 16
        payload == Slice(msgBuffer, headerBytes)
        known == messageType \in {SERVER_FULL_RESPONSE, SERVER_ACK,
                                  SERVER_ERROR_RESPONSE}
        sized == messageType = SERVER_FULL_RESPONSE
                     \/ messageType = SERVER_ERROR_RESPONSE
                     \/ (messageType = SERVER_ACK /\ Len(payload) >= 8)
        at == IF messageType = SERVER_FULL_RESPONSE THEN 0 ELSE 4
        payloadSize == IF known /\ sized THEN readUInt32BE(payload, at) ELSE 0
        payloadMsg == Slice(payload, at + 4)
        inflated == IF messageCompression = GZIP THEN gzipDecompress(payloadMsg)
                    ELSE payloadMsg
    IN IF payloadSize = 0 THEN EmptyObject
       ELSE IF serializationMethod = JSON_TYPE THEN JsonParse(inflated)
       ELSE EmptyObject

-----------------------------------------------------------------------------
(* Specification SpecFrame: a request is framed as handleOpen frames it and *)
(* the frame is given to parseResponse; the server answers with frames that *)
(* handleMessage gives to parseResponse.                                    *)

CommitFrame(f) ==
    /\ frm' = f
    /\ UNCHANGED <<chat, resp, jobs, loops, player, pe, llm, asr, rec, vad, cli, seg>>

InitFrame ==
    /\ \E req \in Requests :
          frm = [req |-> req, stage |-> "new", frame |-> <<>>,
                 decoded |-> EmptyObject, sent |-> EmptyObject]
    /\ chat = Idle /\ resp = Idle /\ jobs = Idle /\ loops = Idle /\ player = Idle
    /\ pe = Idle /\ llm = Idle /\ asr = Idle /\ rec = Idle /\ cli = Idle
    /\ vad = Idle /\ seg = Idle

\* handleOpen builds the full client request
FrameOpen ==
    /\ frm.stage = "new"
    /\ CommitFrame([frm EXCEPT !.stage = "built", !.frame = fullClientMsg(frm.req),
                               !.sent = frm.req])

\* the frame of the request is decoded with parseResponse
FrameDecode ==
    /\ frm.stage = "built"
    /\ CommitFrame([frm EXCEPT !.stage = "decoded", !.decoded = parseResponse(frm.frame)])

\* the server sends a full response carrying v; handleMessage parses it
ServerResponse ==
    \E v \in Requests :
        /\ frm.stage \in {"built", "decoded"}
        /\ CommitFrame([frm EXCEPT !.stage = "answered",
                                   !.frame = serverFullResponse(v),
                                   !.sent = v,
                                   !.decoded = parseResponse(serverFullResponse(v))])

NextFrame ==
    \/ FrameOpen
    \/ FrameDecode
    \/ ServerResponse

SpecFrame == InitFrame /\ [][NextFrame]_vars

\* C6 as stated: parseResponse applied to the frame handleOpen built yields
\* the original request.
C6_RoundTripByParseResponse ==
    frm.stage = "decoded" => frm.decoded = frm.req

\* C6, amended: the frame of handleOpen is the 4-byte header 11 10 11 00, the
\* 4-byte big-endian count of the payload bytes that follow, and a payload
\* that gunzips and parses back to the request; parseResponse returns {} for
\* it (its message type 1 is not a server type), and decodes a frame of the
\* same layout with message type 9 to the value it carries.
C6_FrameLayout ==
    /\ frm.stage \in {"built", "decoded"} =>
          /\ SubSeq(frm.frame, 1, 4) = DefaultFullClientWsHeader
          /\ readUInt32BE(frm.frame, 4) = Len(frm.frame) - 8
          /\ JsonParse(gzipDecompress(Slice(frm.frame, 8))) = frm.req
    /\ frm.stage = "decoded" => frm.decoded = EmptyObject
    /\ frm.stage = "answered" =>
          /\ readUInt32BE(frm.frame, 4) = Len(frm.frame) - 8
          /\ frm.decoded = frm.sent

\* the request frame, with its nine payload bytes, has been decoded
C6_Witness == frm.stage = "decoded" /\ readUInt32BE(frm.frame, 4) = 9

-----------------------------------------------------------------------------
(* Specification SpecSplit: a text is segmented whole by splitSentences,    *)
(* and fed to StreamResponser.partial in two fragments cut at any position. *)
(* seg.splits and seg.wholeSplits record, for the properties, the positions *)
(* of the text after which a sentence was cut.                              *)

MaxLen == 4      \* characters in the text
Alphabet == {"a", "3", ".", " ", "*", "^"}

Texts == UNION {[1..n -> Alphabet] : n \in 1..MaxLen}

\* the ends, in text, of the matches the while loop of splitSentences accepts
RECURSIVE MatchEnds(_, _)
MatchEnds(text, from) ==
    LET e == MatchEnd(text, from)
    IN IF e = 0 \/ ~AcceptTest(Trim(SubSeq(text, from + 1, e))) THEN {}
       ELSE {e} \cup MatchEnds(text, e)

CommitSplit(w, g) ==
    /\ resp' = w.resp /\ jobs' = w.jobs /\ seg' = g
    /\ UNCHANGED <<chat, loops, player, pe, llm, asr, rec, vad, cli, frm>>

InitSplit ==
    /\ \E text \in Texts, cut \in 0..MaxLen :
          /\ cut <= Len(text)
          /\ seg = [text |-> text, cut |-> cut, fed |-> 0, fedLen |-> 0,
                    splits |-> {}, wholeDone |-> FALSE, wholeSplits |-> {},
                    whole |-> <<>>, flushed |-> FALSE]
    /\ chat = Chat0(FALSE, FALSE)
    /\ resp = [partialContent |-> <<>>, speakArray |-> <<>>, isPlaying |-> FALSE,
               playEndResolve |-> 0]
    /\ jobs = <<>>
    /\ loops = Idle /\ player = Idle /\ pe = Idle /\ llm = Idle /\ asr = Idle
    /\ rec = Idle /\ cli = Idle /\ vad = Idle /\ frm = Idle

\* splitSentences(text) on the whole text
SplitWhole ==
    /\ ~seg.wholeDone
    /\ CommitSplit(World, [seg EXCEPT !.wholeDone = TRUE,
                                      !.whole = splitSentences(seg.text).sentences,
                                      !.wholeSplits = MatchEnds(seg.text, 0)])

\* the next fragment arrives: partial(fragment)
FeedFragment ==
    /\ seg.fed < 2
    /\ LET fragment == IF seg.fed = 0 THEN SubSeq(seg.text, 1, seg.cut)
                       ELSE SubSeq(seg.text, seg.cut + 1, Len(seg.text))
           content == ReplaceNewlines(resp.partialContent \o fragment)
           fedLen == seg.fedLen + Len(fragment)
       IN CommitSplit(partial(World, fragment),
                      [seg EXCEPT !.fed = @ + 1,
                                  !.fedLen = fedLen,
                                  !.splits = @ \cup {fedLen - (Len(content) - e) :
                                                       e \in MatchEnds(content, 0)}])

\* the stream ends: endPartial()
Flush ==
    /\ seg.fed = 2 /\ ~seg.flushed
    /\ CommitSplit(endPartial(World), [seg EXCEPT !.flushed = TRUE])

NextSplit ==
    \/ SplitWhole
    \/ FeedFragment
    \/ Flush

SpecSplit == InitSplit /\ [][NextSplit]_vars

\* the terminators of the text that are followed by whitespace or end it
SplitPoints ==
    {p \in 1..Len(seg.text) :
        /\ seg.text[p] \in Terminators
        /\ (p = Len(seg.text) \/ seg.text[p + 1] \in Whitespace)}

\* the whole text is cut exactly after the terminators followed by
\* whitespace or the end
WholeSplitsOK == seg.wholeDone => seg.wholeSplits = SplitPoints

\* C7: whether the text is given whole or arrives through partial in two
\* fragments cut at any position, it is never cut after a terminator that a
\* non-whitespace character follows, and it is cut after every terminator
\* followed by whitespace or the end of the text.
C7_SplitPoints ==
    /\ WholeSplitsOK
    /\ seg.splits \subseteq SplitPoints
    /\ seg.fed = 2 => SplitPoints \subseteq seg.splits

-----------------------------------------------------------------------------
(* Properties of Spec: the controller's states and turn ids                *)

\* the controller's state.  case "image" leaves currentFlowName as it is, so
\* the image state is known by its button handler
FlowState == IF chat.btn = "image" THEN "image" ELSE chat.flow

\* the documented graph
FlowEdges ==
    {<<"sleep", "listening">>, <<"listening", "asr">>, <<"asr", "answer">>,
     <<"answer", "sleep">>, <<"answer", "image">>,
     <<"listening", "listening">>, <<"listening", "sleep">>, <<"asr", "sleep">>,
     <<"answer", "listening">>, <<"asr", "listening">>, <<"image", "sleep">>}

\* the step enters listening / answer (anew, when it was there already)
EntersListening ==
    chat'.flow = "listening"
        /\ (chat.flow # "listening" \/ Len(rec'.recs) > Len(rec.recs))
EntersAnswer == chat'.flow = "answer" /\ Len(llm') > Len(llm)

\* C11: the controller starts in sleep; every state change is an edge of the
\* graph sleep -> listening -> asr -> answer -> (sleep | image) with the
\* documented exits; answer is entered only with non-empty recognized text,
\* and the image state is left only to sleep.
C11_FlowGraph ==
    /\ FlowState = "sleep"
    /\ [][/\ (FlowState' # FlowState \/ EntersListening)
                => <<FlowState, FlowState'>> \in FlowEdges
          /\ EntersAnswer => chat'.asrText # 0]_vars

\* C12: answerId never decreases; it grows by exactly one on every entry into
\* listening and on no other step; and the id an answer captures
\* (currentAnswerId) is the id of the listening entry whose recording
\* produced the recognized text (recognizeAudio's text is the number of the
\* turn that recorded it).
C12_TurnIds ==
    [][/\ chat'.answerId = chat.answerId + (IF EntersListening THEN 1 ELSE 0)
       /\ EntersAnswer => llm'[Len(llm')].turn = chat'.asrText]_vars

\* C13: while the controller is in answer (or shows the image) the capture
\* is not active: isVADActive is false and no capture process is running.
C13_NoCaptureWhileAnswering ==
    chat.flow = "answer" => (~chat.isVADActive /\ ~Capturing)

\* C14: the controller is moved out of answer by a playback-finished signal
\* only when the signal belongs to the current turn: the promise was created
\* by the current turn and it was not resolved by a playNext chain of an
\* earlier, interrupted turn.
C14_PlayEndOfCurrentTurn ==
    \A p \in DOMAIN pe :
        (pe[p].st = "done" /\ pe[p].moved) => (~pe[p].stale /\ ~pe[p].byStale)

-----------------------------------------------------------------------------
(* Specification SpecFair: Spec with the progress the runtime guarantees.  *)
(* Timers fire, pending I/O completes and the language-model stream ends;  *)
(* nothing obliges the user to press the button, to speak, or the devices  *)
(* to fail.                                                                 *)

SpecFair ==
    /\ Spec
    /\ WF_vars(RecognizeDone)
    /\ WF_vars(AsrEndTimer)
    /\ WF_vars(WsAborted)
    /\ WF_vars(CaptureClose)
    /\ WF_vars(LLMEnd)
    /\ WF_vars(JobResolve)
    /\ WF_vars(PlayDone)
    /\ WF_vars(PollTimer)

\* the step settles a recognition: the race of case "asr" by recognizeAudio,
\* or the promise of end() in listening; text is what it yielded
RaceYields(k) ==
    /\ rec.races[k].st = "pending" /\ rec.races[k].rcg = "pending"
    /\ rec'.races[k].st = "settled" /\ rec'.races[k].rcg = "done"
    /\ chat.flow = "asr"

EndYields(e) ==
    /\ asr.ends[e].st = "pending" /\ asr'.ends[e].st = "resolved"
    /\ chat.flow = "listening"

\* the language model of turn t has ended its stream and the answer of turn t
\* has produced no synthesis job
EmptyAnswer(t) ==
    /\ chat.flow = "answer" /\ chat.btn = "answer" /\ chat.answerId = t
    /\ \E k \in DOMAIN llm : llm[k].turn = t /\ llm[k].st = "closed"
    /\ \A k \in DOMAIN llm : llm[k].turn = t => llm[k].st = "closed"
    /\ \A j \in DOMAIN jobs : jobs[j].turn # t

\* C15: empty results.  A recognition that yields empty text returns the
\* controller to sleep (non-empty text leads on), and an answer whose stream
\* ended without any speakable text eventually leaves answer for sleep (or
\* shows the pending image) unless the user starts a new turn.
C15_EmptyResultToSleep ==
    /\ [][/\ \A k \in DOMAIN rec.races : RaceYields(k) =>
                 IF chat'.asrText = 0 THEN chat'.flow = "sleep"
                 ELSE chat'.flow = "answer"
          /\ \A e \in DOMAIN asr.ends : EndYields(e) =>
                 IF asr'.ends[e].val = 0 THEN chat'.flow = "sleep"
                 ELSE chat'.flow = "asr"]_vars
    /\ \A t \in 1..MaxTurns :
          EmptyAnswer(t) ~> (chat.flow = "sleep" \/ chat.btn = "image"
                                 \/ chat.answerId # t)

-----------------------------------------------------------------------------
(* Specification SpecClient: a VolcengineAsrClient used directly (as        *)
(* recognizeAudio uses the module's client): send, end and close at any     *)
(* time, the socket opening and closing, the 500 ms timer.                  *)

ClientCloseCall == CommitAsr(clientClose(World))

NextClient ==
    \/ ClientSendCall
    \/ ClientEndCall
    \/ ClientCloseCall
    \/ WsOpen
    \/ SendTimerTick
    \/ WsClose

SpecClient == InitAsr /\ [][NextClient]_vars

\* the indices of the frames the step transmits
NewFrames == (Len(cli.frames) + 1)..Len(cli'.frames)

\* C16: send() transmits nothing.  A frame with the audio-only header is
\* transmitted only by a tick of the running 500 ms timer and carries the
\* whole, non-empty buffer, which is emptied; a frame with the last-audio
\* header is transmitted only by end().
C16_OnlyTimerAndEndTransmit ==
    [][/\ cli'.sends > cli.sends => cli'.frames = cli.frames
       /\ Len(cli'.frames) <= Len(cli.frames) + 1
       /\ \A i \in NewFrames :
             /\ cli'.frames[i].header = "audio" =>
                   /\ cli.sendTimer /\ cli'.sends = cli.sends /\ cli'.ends = cli.ends
                   /\ cli'.frames[i].data = cli.audioBuffers
                   /\ cli.audioBuffers # <<>> /\ cli'.audioBuffers = <<>>
             /\ cli'.frames[i].header = "last" =>
                   /\ cli'.ends = cli.ends + 1
                   /\ cli'.frames[i].data = cli.audioBuffers
                   /\ cli.audioBuffers # <<>>]_vars

\* two send() calls were followed by a tick whose frame carries both chunks
C16_Witness ==
    /\ cli.sends = 2
    /\ \E i \in DOMAIN cli.frames :
          cli.frames[i].header = "audio" /\ Len(cli.frames[i].data) = 2

\* C17: the full client request is the first frame of the connection and is
\* sent once, when the socket opens; before that nothing is transmitted,
\* whatever was sent or ended in the meantime.
C17_RequestFirstAndOnce ==
    /\ \A i \in DOMAIN cli.frames : (cli.frames[i].header = "full") <=> (i = 1)
    /\ cli.ws \in {"none", "connecting", "aborting"} => cli.frames = <<>>
    /\ cli.ws \in {"open", "closing"} => cli.frames # <<>>

\* the request was followed by a frame carrying the first chunk
C17_Witness ==
    /\ Len(cli.frames) >= 2
    /\ cli.frames[1].header = "full"
    /\ cli.frames[2].header \in {"audio", "last"}
    /\ 1 \in {cli.frames[2].data[k] : k \in DOMAIN cli.frames[2].data}

\* C18: end() on an open connection transmits all buffered audio as one
\* terminal frame, leaves the buffer empty and the connection open; close()
\* cancels the timer and starts closing the connection, and once close() was
\* called no frame is transmitted.
C18_EndFlushesCloseCancels ==
    [][/\ (cli'.ends = cli.ends + 1 /\ cli.ws = "open" /\ cli.audioBuffers # <<>>) =>
             /\ Len(cli'.frames) = Len(cli.frames) + 1
             /\ cli'.frames[Len(cli'.frames)] =
                    [header |-> "last", data |-> cli.audioBuffers]
             /\ cli'.audioBuffers = <<>>
       /\ cli'.ends = cli.ends + 1 => cli'.ws = cli.ws
       /\ (cli.ws \in {"connecting", "open"} /\ cli'.ws \in {"aborting", "closing"}) =>
             ~cli'.sendTimer
       /\ cli.ws \in {"aborting", "closing"} =>
             (cli'.frames = cli.frames /\ ~cli'.sendTimer)]_vars


(***************************************************************************)
(* speech-end and the buffer passed with it; the order of the events       *)
(***************************************************************************)

\* when the last chunk above the threshold before chunk i was processed
LoudBefore(i) ==
    LET loud == {k \in 1..(i - 1) : vad.log[k].speech}
    IN vad.log[CHOOSE k \in loud : \A m \in loud : m <= k].t

\* the chunk whose speech-start opened the utterance that chunk i is part of
StartBefore(i) ==
    CHOOSE k \in 1..(i - 1) :
        /\ vad.log[k].event = "speech-start"
        /\ \A m \in (k + 1)..(i - 1) : vad.log[m].event = "none"

\* C19: speech-end is emitted at a chunk exactly when the chunk is at or
\* below the threshold, the detector is speaking and at least
\* silenceDuration has passed since the last chunk above the threshold; the
\* buffer passed with speech-end holds, in capture order, exactly the chunks
\* from the one that triggered speech-start up to, not including, the one
\* that triggered speech-end.
C19_EndIffSilentAndBuffer ==
    /\ \A i \in DOMAIN vad.log :
          (vad.log[i].event = "speech-end")
              <=> /\ ~vad.log[i].speech
                  /\ SpeakingBefore(i)
                  /\ vad.log[i].t - LoudBefore(i) >= SilenceDuration
    /\ \A i \in DOMAIN vad.log :
          (vad.log[i].event = "speech-end" /\ \A m \in (i + 1)..Len(vad.log) :
                                                 vad.log[m].event # "speech-end")
              => /\ vad.endAt = i
                 /\ vad.audioData = [n \in 1..(i - StartBefore(i)) |-> StartBefore(i) + n - 1]

\* a speech-end whose buffer holds the chunk of the speech-start and a quiet
\* chunk that came too early to end the utterance
C19_Witness ==
    /\ vad.endAt > 2
    /\ Len(vad.audioData) >= 2
    /\ vad.log[vad.endAt].event = "speech-end"
    /\ vad.log[vad.audioData[1]].event = "speech-start"
    /\ \E n \in DOMAIN vad.audioData : ~vad.log[vad.audioData[n]].speech

\* C20 as stated: over the whole run the events of SimpleVAD alternate,
\* beginning with speech-start.
C20_AlternateInRun == ~vad.storm

\* C20, amended: among the chunks processed since the construction or the
\* last reset() the events alternate, beginning with speech-start, also when
\* chunks share a timestamp; after reset() the next event is a speech-start
\* whether or not the last one before it was a speech-end.
C20_AlternateSinceReset ==
    /\ \A i \in DOMAIN vad.log :
          /\ vad.log[i].event = "speech-start" => ~SpeakingBefore(i)
          /\ vad.log[i].event = "speech-end" => SpeakingBefore(i)
    /\ vad.isSpeaking <=> SpeakingBefore(Len(vad.log) + 1)

\* a rise, a fall and a second rise since the reset, each with its one
\* event, the first rise made of two chunks with the same timestamp
C20_Witness ==
    \E i, j, k \in DOMAIN vad.log :
        /\ i + 1 < j /\ j < k
        /\ vad.log[i].event = "speech-start"
        /\ vad.log[i + 1].speech /\ vad.log[i + 1].t = vad.log[i].t
        /\ vad.log[j].event = "speech-end"
        /\ vad.log[k].event = "speech-start"

(***************************************************************************)
(* reset() and the turn before it                                          *)
(***************************************************************************)

MaxErrors == 1    \* "error" events of the stream

CommitStream(w, v) ==
    /\ w.chat.dying <= MaxDying /\ w.chat.leaked <= MaxLeaked
    /\ v.errors <= MaxErrors
    /\ chat' = w.chat /\ vad' = v
    /\ UNCHANGED <<resp, jobs, loops, player, pe, llm, asr, rec, cli, seg, frm>>

InitStream ==
    /\ chat = Chat0(TRUE, TRUE)
    /\ vad = NewVAD
    /\ resp = Idle /\ jobs = Idle /\ loops = Idle /\ player = Idle
    /\ pe = Idle /\ llm = Idle /\ asr = Idle /\ rec = Idle /\ cli = Idle
    /\ seg = Idle /\ frm = Idle

\* StreamingAudioWithVAD.start()
StreamStart == CommitStream(audioStreamStart(World), vadReset(vad))

\* StreamingAudioWithVAD.stop()
StreamStop == CommitStream(audioStreamStop(World), vadReset(vad))

\* a chunk on the stdout of a running capture process
StreamChunk ==
    /\ Capturing
    /\ \E energy \in 0..MaxEnergy :
          /\ Len(vad.log) < MaxLog /\ Len(vad.buffer) < MaxBuffer
          /\ CommitStream(World, onData(vad, energy))

StreamClockTick ==
    /\ vad.now < MaxTime
    /\ CommitStream(World, [vad EXCEPT !.now = @ + 1])

\* process.on("error"): the capture process could not be launched
ProcError ==
    /\ chat.proc = "alive"
    /\ CommitStream([World EXCEPT !.chat.recording = FALSE, !.chat.proc = "none",
                                  !.chat.dying = @ + 1],
                    [vad EXCEPT !.errors = @ + 1])

\* process.on("close") of the running capture process that exited by itself
\* with a non-zero code: isRecording = false and emit("end", code)
ProcExit ==
    /\ chat.proc = "alive"
    /\ CommitStream([World EXCEPT !.chat.recording = FALSE, !.chat.proc = "none"],
                    vad)

\* process.on("close") of a process that was killed or failed to launch
ProcClose ==
    /\ chat.dying > 0
    /\ CommitStream([World EXCEPT !.chat.dying = @ - 1, !.chat.recording = FALSE],
                    vad)

NextStream ==
    \/ StreamStart
    \/ StreamStop
    \/ StreamChunk
    \/ StreamClockTick
    \/ ProcError
    \/ ProcExit
    \/ ProcClose

SpecStream == InitStream /\ [][NextStream]_vars

\* a capture process of the stream is running
Running(c) == c.proc = "alive" \/ c.leaked > 0

\* C22: stop() terminates the capture process and a second stop() changes
\* nothing and kills nothing; start() after stop() spawns a new process;
\* start() while recording spawns none.
C22_StopStartContract ==
    [][ /\ StreamStop =>
            /\ ~Running(chat')
            /\ audioStreamStop(audioStreamStop(World)).chat = chat'
        /\ (StreamStart /\ ~chat.recording) =>
            /\ chat'.proc = "alive"
            /\ chat'.recording
            /\ chat'.proc # chat.proc \/ chat'.leaked = chat.leaked + 1
        /\ (StreamStart /\ chat.recording) =>
            /\ chat'.proc = chat.proc /\ chat'.leaked = chat.leaked
            /\ chat'.dying = chat.dying
      ]_vars

\* C23: the stream emits "error" whenever the capture process fails to
\* launch or exits by itself with a non-zero code.
C23_ErrorOnFailure ==
    [][(ProcError \/ ProcExit) => vad'.errors = vad.errors + 1]_vars

(***************************************************************************)
(* Playback                                                                 *)
(***************************************************************************)

\* the playAudioData calls in progress: started, not completed and not
\* halted by stopPlaying
InProgress == {k \in DOMAIN loops : loops[k].pc = "play" /\ ~loops[k].halted}

\* C24: at most one playback is in progress on the audio-output device at
\* any time.
C24_OnePlayback == Cardinality(InProgress) <= 1

\* endPartial has not been called for the answer in progress
StreamOpen(c, l) == \E k \in DOMAIN l : l[k].turn = c.answerId /\ l[k].st = "open"

\* a playNext chain signals playback finished in this step
SignalsFinished ==
    \E p \in DOMAIN pe : pe[p].by = "none" /\ pe'[p].by = "loop"

\* a chain whose cursor has consumed every job queued
CursorAtEnd ==
    \E k \in DOMAIN loops :
        \/ loops[k].pc = "play" /\ loops[k].idx + 1 >= Len(resp.speakArray)
        \/ loops[k].pc = "poll" /\ loops[k].idx >= Len(resp.speakArray)

\* C25: while the cursor has consumed every job queued and endPartial has
\* not been called, a step of the sequencer leaves a chain waiting and does
\* not signal playback finished, whatever partialContent holds.
C25_WaitsWhileStreamOpen ==
    [][ (StreamOpen(chat, llm) /\ StreamOpen(chat', llm') /\ CursorAtEnd
         /\ (PlayDone \/ PollTimer))
            => (~SignalsFinished /\ loops' # <<>>) ]_vars

(***************************************************************************)
(* Sentences and synthesis jobs                                             *)
(***************************************************************************)

\* the fragment the next partial() call receives
NextFragment ==
    IF seg.fed = 0 THEN SubSeq(seg.text, 1, seg.cut)
    ELSE SubSeq(seg.text, seg.cut + 1, Len(seg.text))

NonEmpty(ss) == SelectSeq(ss, LAMBDA t : t # <<>>)

\* the non-empty purified sentences the call made in this step produces
Produced ==
    IF seg'.fed > seg.fed
    THEN NonEmpty(MapPurify(
             splitSentences(ReplaceNewlines(resp.partialContent \o NextFragment)).sentences))
    ELSE IF seg'.flushed /\ ~seg.flushed
    THEN NonEmpty(<<PurifyTextForTTS(resp.partialContent)>>)
    ELSE <<>>

\* the texts of the synthesis calls started in this step, in the order of
\* the calls
Started == [i \in 1..(Len(jobs') - Len(jobs)) |-> jobs'[Len(jobs) + i].text]

\* C26: the non-empty purified sentences a call of partial or endPartial
\* produces start one synthesis call each, in the order produced and within
\* the call, whatever the state of the earlier jobs; the job of each is
\* appended to speakArray at the index equal to the number of jobs queued
\* before it.
C26_OneJobPerSentence ==
    [][ /\ NonEmpty(Started) = Produced
        /\ Len(resp'.speakArray) = Len(resp.speakArray) + Len(Started)
        /\ \A i \in DOMAIN resp.speakArray : resp'.speakArray[i] = resp.speakArray[i]
        /\ \A i \in DOMAIN Started :
              /\ resp'.speakArray[Len(resp.speakArray) + i] = Len(jobs) + i
              /\ jobs'[Len(jobs) + i].st = "pending"
        /\ \A j \in DOMAIN jobs : jobs'[j] = jobs[j]
      ]_vars

\* three jobs pending at once: one from the first fragment, one from the
\* second, one from endPartial
C26_Witness ==
    /\ seg.flushed
    /\ Len(jobs) = 3 /\ resp.speakArray = <<1, 2, 3>>
    /\ \A j \in DOMAIN jobs : jobs[j].st = "pending" /\ jobs[j].text # <<>>

\* the characters of s that are neither whitespace, emphasis marker nor emoji
Spoken(s) == SelectSeq(s, LAMBDA c : c \notin Whitespace \cup Markers \cup Emoji)

\* the texts of the jobs js, one after the other
RECURSIVE JobTexts(_)
JobTexts(js) == IF js = <<>> THEN <<>> ELSE Head(js).text \o JobTexts(Tail(js))

\* in SpecSplit: once the text is fed, its spoken characters are, in order,
\* those of the jobs and of partialContent; once it is flushed, those of the
\* jobs, and partialContent is empty
FlushConserves ==
    /\ seg.fed = 2 =>
          Spoken(JobTexts(jobs)) \o Spoken(resp.partialContent) = Spoken(seg.text)
    /\ seg.flushed =>
          /\ resp.partialContent = <<>>
          /\ Spoken(JobTexts(jobs)) = Spoken(seg.text)

\* endPartial() is called for the answer in progress in this step
EndPartialCalled ==
    \E k \in DOMAIN llm :
        /\ llm[k].st = "open" /\ llm'[k].st = "closed"
        /\ llm[k].turn = chat.answerId

\* C27: endPartial dispatches non-blank text left in partialContent as one
\* final job behind all jobs queued, and leaves partialContent empty; the
\* final job is played after all earlier jobs of its answer.
C27_FlushDispatchesRest ==
    /\ [][ EndPartialCalled =>
             /\ resp'.partialContent = <<>>
             /\ Trim(resp.partialContent) # <<>> =>
                   /\ Len(jobs') = Len(jobs) + 1
                   /\ jobs'[Len(jobs')].text = PurifyTextForTTS(resp.partialContent)
                   /\ resp'.speakArray = Append(resp.speakArray, Len(jobs'))
         ]_vars
    /\ [](\A b \in DOMAIN player.played : \A j \in DOMAIN jobs :
            (jobs[player.played[b]].trig = "end" /\ j < player.played[b]
               /\ jobs[j].turn = jobs[player.played[b]].turn)
                => \E a \in 1..(b - 1) : player.played[a] = j)

(***************************************************************************)
(* The button handlers of the controller states                            *)
(***************************************************************************)

PressStep == ~chat.down /\ chat'.down

\* C29: a button press while the controller is in listening stops the
\* recognition or recording of the interrupted turn, assigns a new turn id
\* and leaves the controller in listening with a fresh capture, on the
\* VAD-triggered and on the button-triggered path.
C29_PressRestartsListening ==
    [][ (PressStep /\ FlowState = "listening") =>
            /\ chat'.flow = "listening"
            /\ chat'.answerId = chat.answerId + 1
            /\ Len(rec'.recs) = Len(rec.recs) + 1
            /\ rec'.recs[Len(rec'.recs)] = [turn |-> chat'.answerId, st |-> "pending"]
            /\ ~asr'.isStreaming
            /\ \A r \in DOMAIN rec.recs : rec'.recs[r].st # "pending"
      ]_vars

(***************************************************************************)
(* The result of the streaming recognition                                 *)
(***************************************************************************)

\* the promises of StreamingASR.end() that resolve in this step
EndsResolved ==
    {e \in DOMAIN asr'.ends :
        /\ asr'.ends[e].st = "resolved"
        /\ e \in DOMAIN asr.ends => asr.ends[e].st = "pending"}

ConnectionFailed == cli.ws = "closed"

\* the turn in progress relies on the streaming recognizer: listening entered
\* through speech-start with StreamingASR.start(), or case "asr" on its text
OnStreamingPath ==
    /\ chat.streaming
    /\ \/ chat.flow = "listening" /\ chat.btn = "listenVAD"
       \/ chat.flow = "asr" /\ chat.asrDelay > 0

\* C31: a connection error or close of the recognizer is recovered: the
\* controller is in sleep after the failure or the streaming path is
\* disabled, and it is never in listening or asr relying on the streaming
\* recognizer while the connection has failed.
C31_FailedConnectionRecovered ==
    /\ [][ConnectionFailed' /\ ~ConnectionFailed
             => chat'.flow \notin {"listening", "asr"} \/ ~chat'.streaming]_vars
    /\ [](ConnectionFailed => ~OnStreamingPath)

(***************************************************************************)
(* The listener and the timer of StreamingASR.end()                        *)
(***************************************************************************)

\* the end() calls whose promise is not resolved yet
EndsPending == {e \in DOMAIN asr.ends : asr.ends[e].st = "pending"}

\* C32: once a call of StreamingASR.end() has resolved, its final-result
\* listener and its 2 s timer are both gone; a final result resolves at most
\* one end(), and it clears isStreaming only when it resolves an end() that
\* was pending, never through a listener left by an earlier turn.
C32_OneOutstandingEnd ==
    /\ [](\A e \in DOMAIN asr.ends :
             asr.ends[e].st = "resolved" =>
                 ~asr.ends[e].listener /\ ~asr.ends[e].timer)
    /\ [][WsMessage => Cardinality(EndsResolved) <= 1]_vars
    /\ [][WsMessage /\ asr.isStreaming /\ ~asr'.isStreaming
             => EndsResolved # {}]_vars

(***************************************************************************)
(* The recognizer's connection at the beginning of a turn                  *)
(***************************************************************************)

\* the socket created by the constructor is open or can still open
ConnectionUsable == cli.ws \in {"connecting", "open"}

\* C33: whenever the controller is in listening through the VAD path with
\* the streaming recognizer, the connection the recognizer created at
\* construction is open or can still open: no action of the controller
\* (constructor, entry into sleep, startVAD, stopVAD) has closed it.
C33_ConnectionOpenWhenListening ==
    chat.streaming /\ chat.flow = "listening" /\ chat.btn = "listenVAD"
        => ConnectionUsable

(***************************************************************************)
(* The audio handed to the recognizer in a VAD-triggered turn              *)
(***************************************************************************)

\* C34: in a VAD-triggered turn every captured chunk is handed to the
\* recognizer at most once: the audio passed to sendAudioChunk on speech-end
\* repeats no chunk the audio-chunk handler forwarded during the same turn.
C34_ChunkHandedOnce ==
    \A i, j \in DOMAIN vad.handed : i # j => vad.handed[i] # vad.handed[j]

(***************************************************************************)
(* The audio a connection has transmitted                                  *)
(***************************************************************************)

\* the chunks carried by the audio frames transmitted so far, in order
RECURSIVE TransmittedAudio(_)
TransmittedAudio(frames) ==
    IF frames = <<>> THEN <<>>
    ELSE (IF Head(frames).header \in {"audio", "last"} THEN Head(frames).data ELSE <<>>)
             \o TransmittedAudio(Tail(frames))

\* C35: every chunk passed to send() is transmitted at most once and in the
\* order of the send() calls (chunks are numbered in that order), over any
\* sequence of send, timer ticks and end; after end() on an open connection
\* the outbound buffer is empty.
C35_TransmittedOnceInOrder ==
    /\ [](LET t == TransmittedAudio(cli.frames)
          IN \A i, j \in DOMAIN t : i < j => t[i] < t[j])
    /\ [][cli'.ends = cli.ends + 1 /\ cli.ws = "open"
             => cli'.audioBuffers = <<>>]_vars

\* C36: the periodic flush stays armed for the life of an open connection,
\* also after end(): while the socket is open the 500 ms timer is running,
\* so audio passed to send() is transmitted by a tick without another end().
C36_TimerArmedWhileOpen == cli.ws = "open" => cli.sendTimer

(***************************************************************************)
(* The playback loops of StreamResponser                                   *)
(***************************************************************************)

\* C37: at most one playNext chain of StreamResponser is active at any
\* time; a chain started before stop() hands no job queued after that stop
\* to the player; and isPlaying is true exactly while a chain is active.
C37_OneLoop ==
    /\ Len(loops) <= 1
    /\ \A k \in DOMAIN loops :
          (loops[k].stale /\ loops[k].pc \in {"job", "play"}) => jobs[loops[k].job].cut
    /\ resp.isPlaying <=> loops # <<>>

(***************************************************************************)
(* currentFlowName                                                          *)
(***************************************************************************)

\* C38: currentFlowName names the state most recently entered through
\* setCurrentFlow, so the guard currentFlowName === "answer" is false while
\* an image is shown.
C38_FlowNameIsLastEntered ==
    /\ chat.flow = chat.entered
    /\ chat.entered = "image" => chat.flow # "answer"

(***************************************************************************)
(* isBuffering of StreamingAudioWithVAD                                    *)
(***************************************************************************)

\* C39: isBuffering is true exactly when the SimpleVAD is speaking, in every
\* reachable state, also after stop() and a later start(); no chunk is
\* buffered (and emitted as audio-chunk) while the VAD is not speaking.
C39_BufferingIffSpeaking ==
    /\ [](vad.isBuffering <=> vad.isSpeaking)
    /\ [][Len(vad'.buffer) > Len(vad.buffer) => vad'.isSpeaking]_vars

(***************************************************************************)
(* isRecording of AudioInputStream                                         *)
(***************************************************************************)

\* C40: isRecording is true exactly when a capture process started by the
\* object is alive and not stopped, and at most one such process is alive:
\* the close or error event of a process killed by stop() that arrives after
\* a following start() does not clear isRecording, and no process runs
\* without being referred to by the object.
C40_RecordingIffProcessAlive ==
    /\ chat.recording <=> chat.proc = "alive"
    /\ chat.leaked = 0

=============================================================================
